---- MODULE Spec2Model ----
(***************************************************************************)
(* Model of the Inky e-ink display driver (src/inky/inky.py): construction *)
(* (resolution table, colour profile, LUT selection from the identity      *)
(* record), the frame buffer and its packing into two bit planes, and the  *)
(* update sequence (setup, reset, soft reset, configuration, LUT, RAM,     *)
(* trigger, busy wait, deep sleep) stepped one transport call at a time so *)
(* that transport failures, busy-wait timeouts and the panel's busy line   *)
(* interleave with it.                                                     *)
(***************************************************************************)
EXTENDS Integers, Sequences, FiniteSets, TLC

VARIABLES
  args,    \* the arguments given to Inky.__init__
  made,    \* "new" before __init__ ran, "ok" after it returned, "ValueError" if it raised
  self,    \* the attributes of the Inky instance
  pc,      \* position of the in-flight setup() or show() call: "idle" when none
  call,    \* the last operation called on the instance and its arguments; for setup() and show(), the index of the instruction it is at
  result,  \* outcome of that operation: "running", "returned" or the exception raised; "none" before any
  log,     \* what the last operation called on the instance did on the transport, in order
  busy,    \* the panel's busy line as gpiod reports it: TRUE is Value.ACTIVE
  events,  \* falling-edge events of the busy line queued in the line request, not yet read
  fake     \* TRUE for a transport whose wait_edge_events always returns False

vars == <<args, made, self, pc, call, result, log, busy, events, fake>>

----------------------------------------------------------------------------
(* Bounds of the model.                                                    *)

\* the edge-event queue of the line request holds at most this many events
MaxEvents == 2
\* identity records report display variants 0..MaxVariant
MaxVariant == 6

----------------------------------------------------------------------------
(* Module constants of inky.py.                                            *)

WHITE == 0
BLACK == 1
RED == 2
YELLOW == 2

_SPI_COMMAND == 0
_SPI_DATA == 1

\* gpiod.line.Value
INACTIVE == 0
ACTIVE == 1

_RESOLUTION ==
  (<<800, 480>> :> <<800, 480, 0>>) @@
  (<<600, 448>> :> <<600, 448, 0>>) @@
  (<<400, 300>> :> <<400, 300, 0>>) @@
  (<<212, 104>> :> <<104, 212, -90>>) @@
  (<<250, 122>> :> <<250, 122, -90>>)

Colours == {"red", "black", "yellow"}

LUT_black ==
  <<
    \b01001000, \b10100000, \b00010000, \b00010000, \b00010011, \b00000000, \b00000000,
    \b01001000, \b10100000, \b10000000, \b00000000, \b00000011, \b00000000, \b00000000,
    \b00000000, \b00000000, \b00000000, \b00000000, \b00000000, \b00000000, \b00000000,
    \b01001000, \b10100101, \b00000000, \b10111011, \b00000000, \b00000000, \b00000000,
    \b00000000, \b00000000, \b00000000, \b00000000, \b00000000, \b00000000, \b00000000,
    \h10, \h04, \h04, \h04, \h04,
    \h10, \h04, \h04, \h04, \h04,
    \h04, \h08, \h08, \h10, \h10,
    \h00, \h00, \h00, \h00, \h00,
    \h00, \h00, \h00, \h00, \h00,
    \h00, \h00, \h00, \h00, \h00,
    \h00, \h00, \h00, \h00, \h00
  >>

LUT_red ==
  <<
    \b01001000, \b10100000, \b00010000, \b00010000, \b00010011, \b00000000, \b00000000,
    \b01001000, \b10100000, \b10000000, \b00000000, \b00000011, \b00000000, \b00000000,
    \b00000000, \b00000000, \b00000000, \b00000000, \b00000000, \b00000000, \b00000000,
    \b01001000, \b10100101, \b00000000, \b10111011, \b00000000, \b00000000, \b00000000,
    \b00000000, \b00000000, \b00000000, \b00000000, \b00000000, \b00000000, \b00000000,
    \h40, \h0C, \h20, \h0C, \h06,
    \h10, \h08, \h04, \h04, \h06,
    \h04, \h08, \h08, \h10, \h10,
    \h02, \h02, \h02, \h40, \h20,
    \h02, \h02, \h02, \h02, \h02,
    \h00, \h00, \h00, \h00, \h00,
    \h00, \h00, \h00, \h00, \h00
  >>

LUT_red_ht ==
  <<
    \b01001000, \b10100000, \b00010000, \b00010000, \b00010011, \b00010000, \b00010000,
    \b01001000, \b10100000, \b10000000, \b00000000, \b00000011, \b10000000, \b10000000,
    \b00000000, \b00000000, \b00000000, \b00000000, \b00000000, \b00000000, \b00000000,
    \b01001000, \b10100101, \b00000000, \b10111011, \b00000000, \b01001000, \b00000000,
    \b00000000, \b00000000, \b00000000, \b00000000, \b00000000, \b00000000, \b00000000,
    \h43, \h0A, \h1F, \h0A, \h04,
    \h10, \h08, \h04, \h04, \h06,
    \h04, \h08, \h08, \h10, \h0B,
    \h02, \h04, \h04, \h40, \h10,
    \h06, \h06, \h06, \h02, \h02,
    \h00, \h00, \h00, \h00, \h00,
    \h00, \h00, \h00, \h00, \h00
  >>

LUT_yellow ==
  <<
    \b11111010, \b10010100, \b10001100, \b11000000, \b11010000, \b00000000, \b00000000,
    \b11111010, \b10010100, \b00101100, \b10000000, \b11100000, \b00000000, \b00000000,
    \b11111010, \b00000000, \b00000000, \b00000000, \b00000000, \b00000000, \b00000000,
    \b11111010, \b10010100, \b11111000, \b10000000, \b01010000, \b00000000, \b11001100,
    \b10111111, \b01011000, \b11111100, \b10000000, \b11010000, \b00000000, \b00010001,
    \h40, \h10, \h40, \h10, \h08,
    \h08, \h10, \h04, \h04, \h10,
    \h08, \h08, \h03, \h08, \h20,
    \h08, \h04, \h00, \h00, \h10,
    \h10, \h08, \h08, \h00, \h20,
    \h00, \h00, \h00, \h00, \h00,
    \h00, \h00, \h00, \h00, \h00
  >>

_luts ==
  [black |-> LUT_black, red |-> LUT_red, red_ht |-> LUT_red_ht, yellow |-> LUT_yellow]

----------------------------------------------------------------------------
(* Construction: Inky.__init__.                                            *)

\* eeprom.read_eeprom returned None. An identity record is given by the
\* values __init__ reads from it: width, height, display_variant and color,
\* the name get_color() returns
NoEeprom ==
  [present |-> FALSE, width |-> 0, height |-> 0, display_variant |-> 0, color |-> "None"]

\* InitRaises that accepts an identity record of any geometry
InitRaises_any_geometry(a) ==
  \/ a.resolution \notin DOMAIN _RESOLUTION
  \/ a.colour \notin Colours

\* __init__ raises ValueError: unsupported resolution, unsupported colour,
\* or an identity record whose width/height differ from the resolution
InitRaises(a) ==
  \/ a.resolution \notin DOMAIN _RESOLUTION
  \/ a.colour \notin Colours
  \/ /\ a.eeprom.present
     /\ \/ a.eeprom.width # a.resolution[1]
        \/ a.eeprom.height # a.resolution[2]

\* SelectLut that upgrades for a red identity record of any display variant
SelectLut_any_variant(colour, ee) ==
  IF ee.present /\ ee.color = "red" THEN "red_ht" ELSE colour

\* self.lut: the colour, replaced by "red_ht" for an identity record of
\* display variant 1 or 6 whose colour is red
SelectLut(colour, ee) ==
  IF ee.present /\ ee.display_variant \in {1, 6} /\ ee.color = "red"
    THEN "red_ht"
    ELSE colour

\* numpy.zeros((h, w)): a dense h x w array, kept as its shape, the value
\* that fills it and the cells that differ from it (a function from
\* <<row, column>> to the value)
zeros(h, w) == [shape |-> <<h, w>>, fill |-> 0, cells |-> <<>>]

\* the attributes before __init__ has run
NoSelf ==
  [resolution |-> <<0, 0>>, width |-> 0, height |-> 0, cols |-> 0, rows |-> 0,
   rotation |-> 0, colour |-> "None", lut |-> "None", buf |-> zeros(0, 0),
   border_colour |-> 0, h_flip |-> FALSE, v_flip |-> FALSE,
   _gpio |-> "None", _gpio_setup |-> FALSE]

\* the attributes __init__ sets when it does not raise
InkyInit(a) ==
  [resolution |-> a.resolution,
   width |-> a.resolution[1],
   height |-> a.resolution[2],
   cols |-> _RESOLUTION[a.resolution][1],
   rows |-> _RESOLUTION[a.resolution][2],
   rotation |-> _RESOLUTION[a.resolution][3],
   colour |-> a.colour,
   lut |-> SelectLut(a.colour, a.eeprom),
   buf |-> zeros(a.resolution[2], a.resolution[1]),
   border_colour |-> 0,
   h_flip |-> a.h_flip,
   v_flip |-> a.v_flip,
   _gpio |-> "None",
   _gpio_setup |-> FALSE]

----------------------------------------------------------------------------
(* Frame buffer orientation and packing: Inky.show.                        *)

Cell(m, r, c) == IF <<r, c>> \in DOMAIN m.cells THEN m.cells[<<r, c>>] ELSE m.fill

\* m[r][c] is an element of m: numpy takes an index i of an axis of length n
\* when -n <= i < n and raises IndexError otherwise
InBounds(m, r, c) ==
  /\ -m.shape[1] <= r /\ r < m.shape[1]
  /\ -m.shape[2] <= c /\ c < m.shape[2]

\* the position a numpy index denotes on an axis of length n: negative
\* indices count from the end
Wrap(i, n) == IF i < 0 THEN i + n ELSE i

\* setitem that stores the value at the transposed position
setitem_transposed(m, r, c, v) ==
  LET p == <<Wrap(c, m.shape[1]), Wrap(r, m.shape[2])>>
      others == [q \in DOMAIN m.cells \ {p} |-> m.cells[q]]
  IN  [m EXCEPT !.cells = IF v = m.fill THEN others ELSE (p :> v) @@ others]

\* m[r][c] = v for an index in bounds; the cells that hold the fill value
\* are not listed
setitem(m, r, c, v) ==
  LET p == <<Wrap(r, m.shape[1]), Wrap(c, m.shape[2])>>
      others == [q \in DOMAIN m.cells \ {p} |-> m.cells[q]]
  IN  [m EXCEPT !.cells = IF v = m.fill THEN others ELSE (p :> v) @@ others]

\* canvas.paste(image, (0, 0, width, height)) on a new canvas, as an array:
\* the canvas is all zero and takes the image's pixels that fall inside it;
\* image is an array of palette indices on a zero background
paste(canvas, image) ==
  [canvas EXCEPT !.cells =
     [p \in {q \in DOMAIN image.cells : q[1] < canvas.shape[1] /\ q[2] < canvas.shape[2]}
        |-> image.cells[p]]]

\* array.reshape(shape): the same elements in row-major order
reshape(m, shape) ==
  [shape |-> shape, fill |-> m.fill,
   cells |-> [p \in {<<(q[1] * m.shape[2] + q[2]) \div shape[2],
                        (q[1] * m.shape[2] + q[2]) % shape[2]>> : q \in DOMAIN m.cells}
                |-> m.cells[<<(p[1] * shape[2] + p[2]) \div m.shape[2],
                              (p[1] * shape[2] + p[2]) % m.shape[2]>>]]]

\* numpy.fliplr: reverse the order of the columns
fliplr(m) ==
  [m EXCEPT !.cells =
     [p \in {<<q[1], m.shape[2] - 1 - q[2]>> : q \in DOMAIN m.cells}
        |-> m.cells[<<p[1], m.shape[2] - 1 - p[2]>>]]]

\* numpy.flipud: reverse the order of the rows
flipud(m) ==
  [m EXCEPT !.cells =
     [p \in {<<m.shape[1] - 1 - q[1], q[2]>> : q \in DOMAIN m.cells}
        |-> m.cells[<<m.shape[1] - 1 - p[1], p[2]>>]]]

\* numpy.rot90(m, k): k quarter turns counter-clockwise (k = -1: one clockwise)
rot90(m, k) ==
  LET nr == m.shape[1]
      nc == m.shape[2]
      t == k % 4
  IN  CASE t = 0 -> m
        [] t = 1 -> [shape |-> <<nc, nr>>, fill |-> m.fill,
                     cells |-> [p \in {<<nc - 1 - q[2], q[1]>> : q \in DOMAIN m.cells}
                                  |-> m.cells[<<p[2], nc - 1 - p[1]>>]]]
        [] t = 2 -> [shape |-> <<nr, nc>>, fill |-> m.fill,
                     cells |-> [p \in {<<nr - 1 - q[1], nc - 1 - q[2]>> : q \in DOMAIN m.cells}
                                  |-> m.cells[<<nr - 1 - p[1], nc - 1 - p[2]>>]]]
        [] t = 3 -> [shape |-> <<nc, nr>>, fill |-> m.fill,
                     cells |-> [p \in {<<q[2], nr - 1 - q[1]>> : q \in DOMAIN m.cells}
                                  |-> m.cells[<<nr - 1 - p[2], p[1]>>]]]

\* the buffer as show() orients it: v_flip, then h_flip, then the rotation
Region(s) ==
  LET r1 == IF s.v_flip THEN fliplr(s.buf) ELSE s.buf
      r2 == IF s.h_flip THEN flipud(r1) ELSE r1
  IN  IF s.rotation # 0 THEN rot90(r2, s.rotation \div 90) ELSE r2

\* numpy.where(m == v, x, y)
where(m, v, x, y) ==
  [shape |-> m.shape,
   fill |-> IF m.fill = v THEN x ELSE y,
   cells |-> [p \in DOMAIN m.cells |-> IF m.cells[p] = v THEN x ELSE y]]

\* a byte string too long to enumerate: its length, the byte it holds
\* everywhere except at the listed <<index, byte>> pairs
NoPlane == [len |-> 0, dflt |-> 0, ex |-> {}]

\* packbits that drops the bits of an incomplete last byte
packbits_whole_bytes(m) ==
  LET n == m.shape[1] * m.shape[2]
      len == n \div 8
      bitAt(i) == Cell(m, i \div m.shape[2], i % m.shape[2])
      byte(k) == bitAt(8 * k) * 128 + bitAt(8 * k + 1) * 64 + bitAt(8 * k + 2) * 32
                 + bitAt(8 * k + 3) * 16 + bitAt(8 * k + 4) * 8 + bitAt(8 * k + 5) * 4
                 + bitAt(8 * k + 6) * 2 + bitAt(8 * k + 7)
      dflt == m.fill * 255
      touched == {k \in {(p[1] * m.shape[2] + p[2]) \div 8 : p \in DOMAIN m.cells} : k < len}
  IN  [len |-> len, dflt |-> dflt,
       ex |-> {<<k, byte(k)>> : k \in {t \in touched : byte(t) # dflt}}]

\* packbits that fills each byte from its least significant bit
packbits_lsb_first(m) ==
  LET n == m.shape[1] * m.shape[2]
      len == (n + 7) \div 8
      bitAt(i) == IF i < n THEN Cell(m, i \div m.shape[2], i % m.shape[2]) ELSE 0
      byte(k) == bitAt(8 * k) + bitAt(8 * k + 1) * 2 + bitAt(8 * k + 2) * 4
                 + bitAt(8 * k + 3) * 8 + bitAt(8 * k + 4) * 16 + bitAt(8 * k + 5) * 32
                 + bitAt(8 * k + 6) * 64 + bitAt(8 * k + 7) * 128
      dflt == m.fill * 255
      touched == {(p[1] * m.shape[2] + p[2]) \div 8 : p \in DOMAIN m.cells}
                 \cup (IF n % 8 # 0 THEN {len - 1} ELSE {})
  IN  [len |-> len, dflt |-> dflt,
       ex |-> {<<k, byte(k)>> : k \in {t \in touched : byte(t) # dflt}}]

\* numpy.packbits of an array of bits, flattened row-major: eight bits per
\* byte, most significant first, the last byte padded with zero bits
packbits(m) ==
  LET n == m.shape[1] * m.shape[2]
      len == (n + 7) \div 8
      bitAt(i) == IF i < n THEN Cell(m, i \div m.shape[2], i % m.shape[2]) ELSE 0
      byte(k) == bitAt(8 * k) * 128 + bitAt(8 * k + 1) * 64 + bitAt(8 * k + 2) * 32
                 + bitAt(8 * k + 3) * 16 + bitAt(8 * k + 4) * 8 + bitAt(8 * k + 5) * 4
                 + bitAt(8 * k + 6) * 2 + bitAt(8 * k + 7)
      dflt == m.fill * 255
      touched == {(p[1] * m.shape[2] + p[2]) \div 8 : p \in DOMAIN m.cells}
                 \cup (IF n % 8 # 0 THEN {len - 1} ELSE {})
  IN  [len |-> len, dflt |-> dflt,
       ex |-> {<<k, byte(k)>> : k \in {t \in touched : byte(t) # dflt}}]

\* the two planes show() hands to _update
buf_a(s) == packbits(where(Region(s), BLACK, 0, 1))
buf_b(s) == packbits(where(Region(s), RED, 1, 0))

----------------------------------------------------------------------------
(* The update sequence as the list of transport calls setup() and          *)
(* _update() make, in program order.                                       *)

\* self._gpio.set_value(self.reset_pin, v)
SetReset(v) == [op |-> "set_reset", a |-> v, data |-> FALSE, d |-> <<>>, pl |-> NoPlane]
\* time.sleep(ms / 1000)
Sleep(ms) == [op |-> "sleep", a |-> ms, data |-> FALSE, d |-> <<>>, pl |-> NoPlane]
\* self._busy_wait(ms / 1000)
BusyWait(ms) == [op |-> "busy_wait", a |-> ms, data |-> FALSE, d |-> <<>>, pl |-> NoPlane]
\* self._send_command(c): data is None
Command(c) == [op |-> "send_command", a |-> c, data |-> FALSE, d |-> <<>>, pl |-> NoPlane]
\* self._send_command(c, d) with d a list of bytes (an int is sent as [int])
CommandData(c, d) == [op |-> "send_command", a |-> c, data |-> TRUE, d |-> d, pl |-> NoPlane]
\* self._send_command(c, buf) with buf a packed plane
CommandPlane(c, pl) == [op |-> "send_command", a |-> c, data |-> TRUE, d |-> <<>>, pl |-> pl]

\* list(struct.pack("<H", self.rows)): little-endian 16 bits
packed_height(s) == <<s.rows % 256, (s.rows \div 256) % 256>>

\* setup() after the transport is acquired: reset pulse, soft reset, busy wait
setup_reset ==
  << SetReset(INACTIVE), Sleep(100), SetReset(ACTIVE), Sleep(100),
     Command(\h12), BusyWait(1000) >>

\* border_write that ends in an else branch writing the value of WHITE
border_write_else_white(s) ==
  IF s.border_colour = BLACK THEN << CommandData(\h3C, << \b00000000 >>) >>
  ELSE IF s.border_colour = RED /\ s.colour = "red" THEN << CommandData(\h3C, << \b01110011 >>) >>
  ELSE IF s.border_colour = YELLOW /\ s.colour = "yellow" THEN << CommandData(\h3C, << \b00110011 >>) >>
  ELSE << CommandData(\h3C, << \b00110001 >>) >>

\* the border colour write that follows the default one
border_write(s) ==
  IF s.border_colour = BLACK THEN << CommandData(\h3C, << \b00000000 >>) >>
  ELSE IF s.border_colour = RED /\ s.colour = "red" THEN << CommandData(\h3C, << \b01110011 >>) >>
  ELSE IF s.border_colour = YELLOW /\ s.colour = "yellow" THEN << CommandData(\h3C, << \b00110011 >>) >>
  ELSE IF s.border_colour = WHITE THEN << CommandData(\h3C, << \b00110001 >>) >>
  ELSE << >>

\* the source driving voltage overrides
voltage_override(s) ==
  (IF s.colour = "yellow" THEN << CommandData(\h04, << \h07, \hAC, \h32 >>) >> ELSE << >>)
  \o (IF s.colour = "red" /\ s.resolution = <<400, 300>>
        THEN << CommandData(\h04, << \h30, \hAC, \h22 >>) >> ELSE << >>)

\* update_config that writes the source voltage overrides right after the
\* source driving voltage, before the timing registers
update_config_override_early(s) ==
  << CommandData(\h74, << \h54 >>),
     CommandData(\h7E, << \h3B >>),
     CommandData(\h01, packed_height(s) \o << \h00 >>),
     CommandData(\h03, << \h17 >>),
     CommandData(\h04, << \h41, \hAC, \h32 >>) >>
  \o voltage_override(s)
  \o << CommandData(\h3A, << \h07 >>),
        CommandData(\h3B, << \h04 >>),
        CommandData(\h11, << \h03 >>),
        CommandData(\h2C, << \h3C >>),
        CommandData(\h3C, << \b00000000 >>) >>
  \o border_write(s)

\* _update() from the block control commands to the border colour and voltages
update_config(s) ==
  << CommandData(\h74, << \h54 >>),
     CommandData(\h7E, << \h3B >>),
     CommandData(\h01, packed_height(s) \o << \h00 >>),
     CommandData(\h03, << \h17 >>),
     CommandData(\h04, << \h41, \hAC, \h32 >>),
     CommandData(\h3A, << \h07 >>),
     CommandData(\h3B, << \h04 >>),
     CommandData(\h11, << \h03 >>),
     CommandData(\h2C, << \h3C >>),
     CommandData(\h3C, << \b00000000 >>) >>
  \o border_write(s)
  \o voltage_override(s)

\* update_lut that takes the table of the colour instead of the selected LUT
update_lut_by_colour(s) == << CommandData(\h32, _luts[s.colour]) >>

\* the LUT write
update_lut(s) == << CommandData(\h32, _luts[s.lut]) >>

\* update_ram that resets the RAM pointer before the first plane only
update_ram_one_reset(s, a, b) ==
  << CommandData(\h44, << \h00, (s.cols \div 8) - 1 >>),
     CommandData(\h45, << \h00, \h00 >> \o packed_height(s)),
     CommandData(\h4E, << \h00 >>),
     CommandData(\h4F, << \h00, \h00 >>),
     CommandPlane(\h24, a),
     CommandPlane(\h26, b) >>

\* RAM window, then for each plane: RAM pointer to the origin, plane data
update_ram(s, a, b) ==
  << CommandData(\h44, << \h00, (s.cols \div 8) - 1 >>),
     CommandData(\h45, << \h00, \h00 >> \o packed_height(s)),
     CommandData(\h4E, << \h00 >>),
     CommandData(\h4F, << \h00, \h00 >>),
     CommandPlane(\h24, a),
     CommandData(\h4E, << \h00 >>),
     CommandData(\h4F, << \h00, \h00 >>),
     CommandPlane(\h26, b) >>

\* display update sequence, trigger, settle delay
update_trigger == << CommandData(\h22, << \hC7 >>), Command(\h20), Sleep(50) >>

\* update_sleep that ignores busy_wait
update_sleep_always(busy_wait) ==
  << BusyWait(30000), CommandData(\h10, << \h01 >>) >>

\* the optional wait for the refresh and deep sleep
update_sleep(busy_wait) ==
  IF busy_wait THEN << BusyWait(30000), CommandData(\h10, << \h01 >>) >> ELSE << >>

\* _update that loads the LUT before it configures the panel
_update_lut_first(s, a, b, busy_wait) ==
  setup_reset \o update_lut(s) \o update_config(s) \o update_ram(s, a, b)
  \o update_trigger \o update_sleep(busy_wait)

\* _update(buf_a, buf_b, busy_wait) after the transport is acquired
_update(s, a, b, busy_wait) ==
  setup_reset \o update_config(s) \o update_lut(s) \o update_ram(s, a, b)
  \o update_trigger \o update_sleep(busy_wait)

\* show(busy_wait): pack the oriented buffer and update
show(s, busy_wait) == _update(s, buf_a(s), buf_b(s), busy_wait)

----------------------------------------------------------------------------
(* The transport log.                                                      *)

\* one _spi_write(dc, values) that transferred all its values
SpiWrite(dc, d, pl) == [op |-> "spi_write", a |-> dc, d |-> d, pl |-> pl]
\* any other transport call: its name and its argument or result
Event(op, a) == [op |-> op, a |-> a, d |-> <<>>, pl |-> NoPlane]

\* what _send_command(ins) leaves on the bus: the command byte, then the data if any
_send_command(ins) ==
  << SpiWrite(_SPI_COMMAND, << ins.a >>, NoPlane) >>
  \o (IF ins.data THEN << SpiWrite(_SPI_DATA, ins.d, ins.pl) >> ELSE << >>)

----------------------------------------------------------------------------
(* Actions.                                                                *)

\* no operation has been called yet
NoCall == [op |-> "none", busy_wait |-> FALSE, i |-> 0, x |-> 0, y |-> 0, v |-> 0]

\* the statements a call c on instance s runs once the transport is
\* acquired: those of setup() alone, or those of show()
Program(s, c) == IF c.op = "setup" THEN setup_reset ELSE show(s, c.busy_wait)

\* the instruction the in-flight call is at
Ins == Program(self, call)[call.i]

\* an exception leaves the call: nothing more is done in it
Raise(e) ==
  /\ pc' = "idle"
  /\ result' = e
  /\ call' = [call EXCEPT !.i = 0]

\* the instruction completed: go to the next one, or return from the call
Advance ==
  IF call.i = Len(Program(self, call))
    THEN /\ pc' = "idle"
         /\ result' = "returned"
         /\ call' = [call EXCEPT !.i = 0]
    ELSE /\ pc' = "run"
         /\ result' = result
         /\ call' = [call EXCEPT !.i = call.i + 1]

\* set_border(colour): no transport call is made
SetBorder(colour) ==
  /\ made = "ok" /\ pc = "idle"
  /\ self' = IF colour \in {WHITE, BLACK, RED}
               THEN [self EXCEPT !.border_colour = colour]
               ELSE self
  /\ call' = [NoCall EXCEPT !.op = "set_border", !.v = colour]
  /\ result' = "returned"
  /\ log' = <<>>
  /\ UNCHANGED <<args, made, pc, busy, events, fake>>

\* show() whose setup() ignores _gpio_setup and acquires the transport again
Show_acquire_again(busy_wait) ==
  /\ made = "ok" /\ pc = "idle"
  /\ call' = [NoCall EXCEPT !.op = "show", !.busy_wait = busy_wait, !.i = 1]
  /\ log' = <<>>
  /\ result' = "running"
  /\ pc' = IF self._gpio = "None" THEN "setup_gpio" ELSE "setup_spi"
  /\ UNCHANGED <<args, made, self, busy, events, fake>>

\* setup() is called on its own: the transport is acquired if it was not,
\* then the reset pulse, the soft reset and its busy wait follow
Setup ==
  /\ made = "ok" /\ pc = "idle"
  /\ call' = [NoCall EXCEPT !.op = "setup", !.i = 1]
  /\ log' = <<>>
  /\ result' = "running"
  /\ pc' = IF self._gpio_setup THEN "run"
           ELSE IF self._gpio = "None" THEN "setup_gpio" ELSE "setup_spi"
  /\ UNCHANGED <<args, made, self, busy, events, fake>>

\* show(busy_wait) is called: the planes are packed and setup() is entered
Show(busy_wait) ==
  /\ made = "ok" /\ pc = "idle"
  /\ call' = [NoCall EXCEPT !.op = "show", !.busy_wait = busy_wait, !.i = 1]
  /\ log' = <<>>
  /\ result' = "running"
  /\ pc' = IF self._gpio_setup THEN "run"
           ELSE IF self._gpio = "None" THEN "setup_gpio" ELSE "setup_spi"
  /\ UNCHANGED <<args, made, self, busy, events, fake>>

\* setup(): find the chip, check the pins and request the lines
SetupGpio ==
  /\ pc = "setup_gpio"
  /\ \/ /\ self' = [self EXCEPT !._gpio = "lines"]
        /\ log' = Append(log, Event("request_lines", 0))
        /\ pc' = "setup_spi"
        /\ UNCHANGED <<call, result>>
     \/ \* check_pins_available returned False: no lines are requested
        /\ pc' = "setup_spi"
        /\ UNCHANGED <<self, log, call, result>>
     \/ \* the chip lookup, the check or the request raised
        /\ Raise("OSError")
        /\ log' = Append(log, Event("request_lines_raised", 0))
        /\ UNCHANGED self
  /\ UNCHANGED <<args, made, busy, events, fake>>

\* setup(): open the SPI bus, configure it, mark the transport as set up
SetupSpi ==
  /\ pc = "setup_spi"
  /\ \/ /\ self' = [self EXCEPT !._gpio_setup = TRUE]
        /\ log' = Append(log, Event("spi_open", 0))
        /\ pc' = "run"
        /\ UNCHANGED <<call, result>>
     \/ \* open() raised
        /\ Raise("OSError")
        /\ log' = Append(log, Event("spi_open_raised", 0))
        /\ UNCHANGED self
     \/ \* open() returned and setting max_speed_hz raised
        /\ Raise("OSError")
        /\ log' = log \o << Event("spi_open", 0), Event("spi_setup_raised", 0) >>
        /\ UNCHANGED self
  /\ UNCHANGED <<args, made, busy, events, fake>>

\* self._gpio.set_value(self.reset_pin, v): AttributeError when no lines were requested
DoSetReset ==
  /\ pc = "run" /\ Ins.op = "set_reset"
  /\ IF self._gpio = "None"
       THEN Raise("AttributeError") /\ log' = Append(log, Event("set_reset_raised", Ins.a))
       ELSE Advance /\ log' = Append(log, Event("set_reset", Ins.a))
  /\ UNCHANGED <<args, made, self, busy, events, fake>>

\* time.sleep
DoSleep ==
  /\ pc = "run" /\ Ins.op = "sleep"
  /\ Advance
  /\ log' = Append(log, Event("sleep", Ins.a))
  /\ UNCHANGED <<args, made, self, busy, events, fake>>

\* the panel starts work, and raises busy, on soft reset and on the update trigger
StartsPanel(c) == c \in {\h12, \h20}

\* _send_command that tries again when the command write raises
DoSendCommand_retry ==
  /\ pc = "run" /\ Ins.op = "send_command"
  /\ \/ /\ Advance
        /\ log' = log \o _send_command(Ins)
        /\ busy' = (busy \/ StartsPanel(Ins.a))
     \/ /\ Len(log) < 100
        /\ log' = Append(log, Event("spi_write_raised", _SPI_COMMAND))
        /\ UNCHANGED <<pc, call, result, busy>>
  /\ UNCHANGED <<args, made, self, events, fake>>

\* _send_command: the command byte, then the data; either _spi_write may raise
DoSendCommand ==
  /\ pc = "run" /\ Ins.op = "send_command"
  /\ \/ \* both writes transferred
        /\ Advance
        /\ log' = log \o _send_command(Ins)
        /\ busy' = (busy \/ StartsPanel(Ins.a))
     \/ \* the command write raised
        /\ Raise("OSError")
        /\ log' = Append(log, Event("spi_write_raised", _SPI_COMMAND))
        /\ busy' = busy
     \/ \* the command was written and the data write raised
        /\ Ins.data
        /\ Raise("OSError")
        /\ log' = log \o << SpiWrite(_SPI_COMMAND, << Ins.a >>, NoPlane),
                             Event("spi_write_raised", _SPI_DATA) >>
        /\ busy' = (busy \/ StartsPanel(Ins.a))
  /\ UNCHANGED <<args, made, self, events, fake>>

\* _busy_wait: sample the busy line; wait for an edge only if it is active
DoBusyWait ==
  /\ pc = "run" /\ Ins.op = "busy_wait"
  /\ log' = log \o << Event("busy_wait", Ins.a),
                       Event("get_value", IF busy THEN ACTIVE ELSE INACTIVE) >>
  /\ IF busy
       THEN pc' = "wait_edge" /\ UNCHANGED <<call, result>>
       ELSE Advance
  /\ UNCHANGED <<args, made, self, busy, events, fake>>

\* wait_edge_events(timeout): True when an edge event is queued before the
\* timeout, False otherwise; the fake transport always answers False
wait_edge_events == ~fake /\ events > 0

\* _busy_wait that does not raise on a False answer
DoWaitEdge_no_raise ==
  /\ pc = "wait_edge"
  /\ log' = Append(log, Event("wait_edge_events", IF wait_edge_events THEN 1 ELSE 0))
  /\ pc' = "read_edge"
  /\ UNCHANGED <<args, made, self, call, result, busy, events, fake>>

\* _busy_wait that answers a timeout by issuing the previous command again
DoWaitEdge_retry ==
  /\ pc = "wait_edge"
  /\ log' = Append(log, Event("wait_edge_events", IF wait_edge_events THEN 1 ELSE 0))
  /\ IF wait_edge_events
       THEN pc' = "read_edge" /\ UNCHANGED <<call, result>>
       ELSE /\ Len(log) < 100
            /\ pc' = "run"
            /\ call' = [call EXCEPT !.i = call.i - 1]
            /\ result' = result
  /\ UNCHANGED <<args, made, self, busy, events, fake>>

\* _busy_wait: the edge wait; a False answer raises RuntimeError
DoWaitEdge ==
  /\ pc = "wait_edge"
  /\ log' = Append(log, Event("wait_edge_events", IF wait_edge_events THEN 1 ELSE 0))
  /\ IF wait_edge_events
       THEN pc' = "read_edge" /\ UNCHANGED <<call, result>>
       ELSE Raise("RuntimeError")
  /\ UNCHANGED <<args, made, self, busy, events, fake>>

\* _busy_wait: read_edge_events() drains the queue
DoReadEdge ==
  /\ pc = "read_edge"
  /\ events' = 0
  /\ Advance
  /\ UNCHANGED <<args, made, self, log, busy, fake>>

\* the panel finishes its work: busy falls, and the falling edge is queued
\* if the busy line has been requested with edge detection
PanelReady ==
  /\ busy
  /\ busy' = FALSE
  /\ events' = IF self._gpio = "lines" /\ events < MaxEvents THEN events + 1 ELSE events
  /\ UNCHANGED <<args, made, self, pc, call, result, log, fake>>

\* set_pixel that writes whatever value it is given
SetPixel_any_value(x, y, v) ==
  /\ made = "ok" /\ pc = "idle"
  /\ call' = [NoCall EXCEPT !.op = "set_pixel", !.x = x, !.y = y, !.v = v]
  /\ log' = <<>>
  /\ IF InBounds(self.buf, y, x)
       THEN /\ self' = [self EXCEPT !.buf = setitem(self.buf, y, x, v)]
            /\ result' = "returned"
       ELSE /\ self' = self
            /\ result' = "IndexError"
  /\ UNCHANGED <<args, made, pc, busy, events, fake>>

\* set_pixel(x, y, v): self.buf[y][x] = v when v is WHITE, BLACK or RED;
\* the index is only evaluated then, and raises IndexError out of bounds
SetPixel(x, y, v) ==
  /\ made = "ok" /\ pc = "idle"
  /\ call' = [NoCall EXCEPT !.op = "set_pixel", !.x = x, !.y = y, !.v = v]
  /\ log' = <<>>
  /\ IF v \in {WHITE, BLACK, RED}
       THEN IF InBounds(self.buf, y, x)
              THEN /\ self' = [self EXCEPT !.buf = setitem(self.buf, y, x, v)]
                   /\ result' = "returned"
              ELSE /\ self' = self
                   /\ result' = "IndexError"
       ELSE /\ self' = self
            /\ result' = "returned"
  /\ UNCHANGED <<args, made, pc, busy, events, fake>>

\* set_image(image): image is the raster after resize((width, height)) and
\* conversion to palette indices, as an array of height rows and width
\* columns; it is pasted on a new canvas of size (rows, cols), whose array
\* has cols rows and rows columns, and the buffer is replaced by it
SetImage(image) ==
  /\ made = "ok" /\ pc = "idle"
  /\ call' = [NoCall EXCEPT !.op = "set_image"]
  /\ log' = <<>>
  /\ result' = "returned"
  /\ self' = [self EXCEPT !.buf =
                 reshape(paste(zeros(self.cols, self.rows), image), <<self.cols, self.rows>>)]
  /\ UNCHANGED <<args, made, pc, busy, events, fake>>

\* Inky(...) is constructed
New ==
  /\ made = "new"
  /\ IF InitRaises(args)
       THEN made' = "ValueError" /\ self' = self
       ELSE made' = "ok" /\ self' = InkyInit(args)
  /\ UNCHANGED <<args, pc, call, result, log, busy, events, fake>>

----------------------------------------------------------------------------
(* Inputs and specifications.                                              *)

\* a resolution that is not in the table
Unsupported == <<640, 400>>

\* identity records a panel of resolution r may carry, and some it may not
Eeproms(r) ==
  {NoEeprom} \cup
  { [present |-> TRUE, width |-> wh[1], height |-> wh[2], display_variant |-> v, color |-> c] :
      wh \in {r, <<r[2], r[1]>>}, v \in 0..MaxVariant, c \in {"None", "black", "red", "yellow"} }

\* every argument list of the constructor that is considered
ArgsAll ==
  { [resolution |-> r, colour |-> c, eeprom |-> e, h_flip |-> hf, v_flip |-> vf] :
      r \in DOMAIN _RESOLUTION \cup {Unsupported},
      c \in Colours \cup {"green"},
      e \in UNION {Eeproms(q) : q \in DOMAIN _RESOLUTION},
      hf \in BOOLEAN, vf \in BOOLEAN }

\* the argument lists the update sequence is explored for: every resolution
\* and colour, supported or not, without an identity record or with one of
\* any geometry that upgrades the LUT
ArgsUpdate ==
  { a \in ArgsAll :
      /\ ~a.h_flip /\ ~a.v_flip
      /\ a.eeprom.present => (a.eeprom.display_variant = 1 /\ a.eeprom.color = "red") }

Quiet ==
  /\ pc = "idle"
  /\ call = NoCall
  /\ result = "none"
  /\ log = <<>>
  /\ busy = FALSE
  /\ events = 0

\* before construction, for any argument list
InitNew ==
  /\ args \in ArgsAll
  /\ made = "new"
  /\ self = NoSelf
  /\ fake = FALSE
  /\ Quiet

\* before construction, for the argument lists of ArgsUpdate and either transport
Init ==
  /\ args \in ArgsUpdate
  /\ made = "new"
  /\ self = NoSelf
  /\ fake \in BOOLEAN
  /\ Quiet

Next ==
  \/ New
  \/ \E colour \in 0..3 : SetBorder(colour)
  \/ Setup
  \/ \E busy_wait \in BOOLEAN : Show(busy_wait)
  \/ SetupGpio
  \/ SetupSpi
  \/ DoSetReset
  \/ DoSleep
  \/ DoSendCommand
  \/ DoBusyWait
  \/ DoWaitEdge
  \/ DoReadEdge
  \/ PanelReady

Spec == Init /\ [][Next]_vars

\* the instances the frame buffer is explored for: every resolution and
\* every combination of the flip flags, colour red, no identity record
ArgsBuf ==
  { a \in ArgsAll :
      /\ ~InitRaises(a)
      /\ a.colour = "red"
      /\ ~a.eeprom.present }

\* the pixel positions set_pixel is called with: the far corner of the
\* display and the first position past it
Positions(s) == { <<s.width - 1, s.height - 1>>, <<s.width, s.height>> }

\* the values set_pixel is called with: the three colours, one above them
\* and one below
PixelValues == -1..3

\* the images set_image is called with, after resize and conversion: height
\* rows of width palette indices; a blank one, and one with a black, an
\* accent and an out-of-palette pixel in three corners
Images(s) ==
  { zeros(s.height, s.width),
    [zeros(s.height, s.width) EXCEPT
       !.cells = (<<0, 0>> :> BLACK) @@ (<<0, s.width - 1>> :> RED)
                 @@ (<<s.height - 1, s.width - 1>> :> 3)] }

\* after construction, before any operation
InitBuf ==
  /\ args \in ArgsBuf
  /\ made = "ok"
  /\ self = InkyInit(args)
  /\ fake = FALSE
  /\ Quiet

NextBuf ==
  \/ \E p \in Positions(self) : \E v \in PixelValues : SetPixel(p[1], p[2], v)
  \/ \E image \in Images(self) : SetImage(image)
  \/ \E busy_wait \in BOOLEAN : Show(busy_wait)
  \/ SetupGpio
  \/ SetupSpi
  \/ DoSetReset
  \/ DoSleep
  \/ DoSendCommand
  \/ DoBusyWait
  \/ DoWaitEdge
  \/ DoReadEdge
  \/ PanelReady

SpecBuf == InitBuf /\ [][NextBuf]_vars

SpecNew == InitNew /\ [][New]_vars

----------------------------------------------------------------------------
(* Reading the transport log.                                              *)

\* the last operation was show() and it returned
Returned == call.op = "show" /\ result = "returned"

IsCommand(e) == e.op = "spi_write" /\ e.a = _SPI_COMMAND
IsData(e) == e.op = "spi_write" /\ e.a = _SPI_DATA

\* positions of the log where command byte c was written
Sent(c) == {i \in 1..Len(log) : IsCommand(log[i]) /\ log[i].d = << c >>}

\* positions of the log where command byte c was written and followed by data d
SentWith(c, d) ==
  {i \in Sent(c) : i < Len(log) /\ log[i + 1] = SpiWrite(_SPI_DATA, d, NoPlane)}

\* positions of the log holding the transport call op with argument or result a
Where(op, a) == {i \in 1..Len(log) : log[i] = Event(op, a)}

\* positions of the log after position i at which a command byte was written
CommandsAfter(i) == {j \in (i + 1)..Len(log) : IsCommand(log[j])}

ConfigRegisters == {\h74, \h7E, \h01, \h03, \h04, \h3A, \h3B, \h11, \h2C, \h3C}
RamRegisters == {\h44, \h45, \h4E, \h4F, \h24, \h26}

\* the phase of the update sequence a log entry belongs to; 0 for the entries
\* that belong to whatever phase they occur in (delays, data, line samples)
Phase(e) ==
  CASE e.op = "set_reset" -> 1
    [] e = Event("busy_wait", 1000) -> 3
    [] e = Event("busy_wait", 30000) -> 9
    [] IsCommand(e) /\ e.d = << \h12 >> -> 2
    [] IsCommand(e) /\ e.d[1] \in ConfigRegisters -> 4
    [] IsCommand(e) /\ e.d = << \h32 >> -> 5
    [] IsCommand(e) /\ e.d[1] \in RamRegisters -> 6
    [] IsCommand(e) /\ e.d = << \h22 >> -> 7
    [] IsCommand(e) /\ e.d = << \h20 >> -> 8
    [] IsCommand(e) /\ e.d = << \h10 >> -> 10
    [] OTHER -> 0

HasPhase(e) == Phase(e) > 0

\* the phases of the log's entries, in log order
Phases == LET f == SelectSeq(log, HasPhase) IN [i \in 1..Len(f) |-> Phase(f[i])]

\* the phases that consist of several transport calls
LongPhases == {1, 4, 6}

----------------------------------------------------------------------------
(* C1: every update call issues its phases in the fixed order reset pulse, *)
(* soft reset 0x12, soft-reset busy wait, configuration (starting with     *)
(* 0x74/0x54 then 0x7E/0x3B), LUT 0x32, RAM window and planes, update      *)
(* control 0x22/0xC7, trigger 0x20 and, only when waiting, busy wait then  *)
(* deep sleep: no entry of a later phase precedes one of an earlier phase, *)
(* no phase is entered twice, and a call that returns went through each    *)
(* phase exactly once.                                                     *)
C1_PhaseOrder ==
  LET ps == Phases
      first == CHOOSE i \in Sent(\h74) : \A j \in Sent(\h74) : i <= j
  IN  /\ \A i \in 1..(Len(ps) - 1) :
           /\ ps[i] <= ps[i + 1]
           /\ ps[i] = ps[i + 1] => ps[i] \in LongPhases
      /\ Returned =>
           /\ {ps[i] : i \in 1..Len(ps)} = 1..(IF call.busy_wait THEN 10 ELSE 8)
           /\ \E i \in Where("set_reset", INACTIVE) : \E j \in Where("set_reset", ACTIVE) :
                /\ i < j
                /\ Where("set_reset", INACTIVE) = {i}
                /\ Where("set_reset", ACTIVE) = {j}
           /\ Cardinality(Sent(\h12)) = 1
           /\ Cardinality(Where("busy_wait", 1000)) = 1
           /\ Sent(\h74) # {}
           /\ \A i \in 1..Len(log) : Phase(log[i]) = 4 => first <= i
           /\ SubSeq(log, first, first + 3) =
                << SpiWrite(_SPI_COMMAND, << \h74 >>, NoPlane),
                   SpiWrite(_SPI_DATA, << \h54 >>, NoPlane),
                   SpiWrite(_SPI_COMMAND, << \h7E >>, NoPlane),
                   SpiWrite(_SPI_DATA, << \h3B >>, NoPlane) >>
           /\ Cardinality(Sent(\h32)) = 1
           /\ Cardinality(Sent(\h22)) = 1 /\ SentWith(\h22, << \hC7 >>) = Sent(\h22)
           /\ Cardinality(Sent(\h20)) = 1
           /\ call.busy_wait =>
                /\ Cardinality(Where("busy_wait", 30000)) = 1
                /\ Cardinality(Sent(\h10)) = 1

\* an update with wait=true has returned
C1_Witness == Returned /\ call.busy_wait /\ Sent(\h10) # {}

----------------------------------------------------------------------------
(* C2: deep sleep (0x10 with data 0x01) is issued only in an update called *)
(* with wait=true, and no command follows it; an update that returns with  *)
(* wait=true ends with it; with wait=false the update makes no             *)
(* post-trigger busy wait, never issues deep sleep, and returns right      *)
(* after the trigger and its 50 ms delay.                                  *)
C2_DeepSleepOnlyWhenWaiting ==
  LET n == Len(log)
  IN  /\ \A i \in Sent(\h10) : call.busy_wait /\ CommandsAfter(i) = {}
      /\ ~call.busy_wait => Where("busy_wait", 30000) = {} /\ Sent(\h10) = {}
      /\ Returned /\ call.busy_wait =>
           /\ n >= 2
           /\ log[n - 1] = SpiWrite(_SPI_COMMAND, << \h10 >>, NoPlane)
           /\ log[n] = SpiWrite(_SPI_DATA, << \h01 >>, NoPlane)
      /\ Returned /\ ~call.busy_wait =>
           /\ n >= 2
           /\ log[n - 1] = SpiWrite(_SPI_COMMAND, << \h20 >>, NoPlane)
           /\ log[n] = Event("sleep", 50)

\* an update with wait=false has returned
C2_Witness == Returned /\ ~call.busy_wait /\ Sent(\h20) # {}

----------------------------------------------------------------------------
\* a log entry of a transport call that raised or timed out
Failed(e) ==
  \/ e.op \in {"request_lines_raised", "spi_open_raised", "spi_setup_raised",
               "set_reset_raised", "spi_write_raised"}
  \/ e = Event("wait_edge_events", 0)

Exceptions == {"OSError", "RuntimeError", "AttributeError"}

(* C3 as stated, for the update calls that wait: with a transport whose    *)
(* wait_edge_events always answers False, no update call returns normally  *)
(* and deep sleep is never issued.                                         *)
C3_Original == fake /\ call.busy_wait => (result # "returned" /\ Sent(\h10) = {})

(* C3, amended: with a transport whose wait_edge_events always answers     *)
(* False, an update call in which a busy wait samples the busy line as     *)
(* active raises the timeout error at that wait, as the last thing it      *)
(* does, and never issues deep sleep.                                      *)
C3_TimeoutWhenBusySampled ==
  fake /\ Where("get_value", ACTIVE) # {} =>
    /\ Sent(\h10) = {}
    /\ Cardinality(Where("get_value", ACTIVE)) = 1
    /\ \/ pc = "wait_edge"
       \/ /\ pc = "idle"
          /\ result = "RuntimeError"
          /\ log[Len(log)] = Event("wait_edge_events", 0)
          /\ log[Len(log) - 1] = Event("get_value", ACTIVE)

\* on such a transport an update found the line busy after the trigger and timed out
C3_Witness ==
  /\ fake /\ result = "RuntimeError"
  /\ Where("busy_wait", 30000) # {}
  /\ Where("get_value", ACTIVE) # {}

----------------------------------------------------------------------------
(* C4: a timeout of the busy wait that follows soft reset ends the update  *)
(* call with the timeout error: the soft reset command is the only command *)
(* the call issued, once, and nothing follows the timed-out wait.          *)
C4_SoftResetTimeoutFatal ==
  \A i \in Where("wait_edge_events", 0) :
    Where("busy_wait", 30000) = {} =>
      /\ i = Len(log)
      /\ pc = "idle"
      /\ result = "RuntimeError"
      /\ Cardinality(Sent(\h12)) = 1
      /\ {j \in 1..Len(log) : IsCommand(log[j])} = Sent(\h12)

\* the soft-reset busy wait of a real transport timed out
C4_Witness ==
  /\ ~fake /\ result = "RuntimeError"
  /\ Where("busy_wait", 1000) # {} /\ Where("busy_wait", 30000) = {}
  /\ Where("wait_edge_events", 0) # {}

----------------------------------------------------------------------------
(* C5: an update call that returns has issued the trigger 0x20 and met no  *)
(* failure; a transport call that raises or a busy wait that times out is  *)
(* the last thing its update call does, and the call ends with that        *)
(* exception; a finished call has either returned or raised.               *)
C5_NoPartialSuccessNoRetry ==
  /\ Returned =>
       /\ Sent(\h20) # {}
       /\ \A i \in 1..Len(log) : ~Failed(log[i])
  /\ \A i \in 1..Len(log) :
       Failed(log[i]) => i = Len(log) /\ pc = "idle" /\ result \in Exceptions
  /\ pc = "idle" /\ call.op \in {"show", "setup"} =>
       \/ result = "returned"
       \/ result \in Exceptions /\ log # <<>> /\ Failed(log[Len(log)])
  /\ pc # "idle" => result = "running"

\* a data write raised after the LUT was loaded
C5_Witness ==
  /\ result = "OSError"
  /\ Sent(\h32) # {}
  /\ log[Len(log)] = Event("spi_write_raised", _SPI_DATA)

----------------------------------------------------------------------------
(* C6: an update writes the LUT register 0x32 at most once, the data that  *)
(* follows it is the 70-byte table named by the LUT selected at            *)
(* construction (black, red, red_ht or yellow), and an update that got past *)
(* the LUT phase wrote it exactly once, with its data.                     *)
C6_OneLutWrite ==
  /\ Cardinality(Sent(\h32)) <= 1
  /\ made = "ok" =>
       /\ self.lut \in {"black", "red", "red_ht", "yellow"}
       /\ self.lut = SelectLut(args.colour, args.eeprom)
  /\ \A i \in Sent(\h32) :
       i < Len(log) /\ IsData(log[i + 1]) =>
         /\ log[i + 1].d = _luts[self.lut]
         /\ Len(log[i + 1].d) = 70
         /\ log[i + 1].pl = NoPlane
  /\ (\E i \in 1..Len(log) : Phase(log[i]) > 5) =>
       /\ Cardinality(Sent(\h32)) = 1
       /\ \A i \in Sent(\h32) : IsData(log[i + 1])

\* the upgraded LUT has been written
C6_Witness ==
  /\ self.lut = "red_ht"
  /\ \E i \in Sent(\h32) : i < Len(log) /\ IsData(log[i + 1])
  /\ Returned

----------------------------------------------------------------------------
(* C7: the RAM window registers 0x44 then 0x45 are written before any      *)
(* plane data; plane data is written to 0x24 (monochrome plane) and then   *)
(* to 0x26 (accent plane), at most once each and exactly once each in an   *)
(* update that got past the RAM phase; each plane write is immediately     *)
(* preceded by 0x4E with 0x00 and 0x4F with 0x00,0x00.                     *)
C7_RamOrder ==
  LET planes == Sent(\h24) \cup Sent(\h26)
      written(i) == i < Len(log) /\ IsData(log[i + 1])
  IN  /\ Cardinality(Sent(\h24)) <= 1 /\ Cardinality(Sent(\h26)) <= 1
      /\ \A i \in 1..Len(log) : log[i].pl # NoPlane => (i - 1) \in planes
      /\ \A i \in planes :
           /\ i > 4
           /\ SubSeq(log, i - 4, i - 1) =
                << SpiWrite(_SPI_COMMAND, << \h4E >>, NoPlane),
                   SpiWrite(_SPI_DATA, << \h00 >>, NoPlane),
                   SpiWrite(_SPI_COMMAND, << \h4F >>, NoPlane),
                   SpiWrite(_SPI_DATA, << \h00, \h00 >>, NoPlane) >>
           /\ \E x \in Sent(\h44) : \E y \in Sent(\h45) :
                x < y /\ y < i /\ written(x) /\ written(y)
      /\ \A i \in Sent(\h24) : written(i) => log[i + 1] = SpiWrite(_SPI_DATA, <<>>, buf_a(self))
      /\ \A j \in Sent(\h26) :
           /\ \E i \in Sent(\h24) : i < j /\ written(i)
           /\ written(j) => log[j + 1] = SpiWrite(_SPI_DATA, <<>>, buf_b(self))
      /\ Sent(\h22) # {} =>
           /\ Cardinality({i \in 1..Len(log) : log[i].pl # NoPlane}) = 2
           /\ \A i \in planes : written(i)

\* both planes have been written
C7_Witness ==
  /\ \E i \in Sent(\h24) : \E j \in Sent(\h26) : i < j /\ j < Len(log)
  /\ buf_a(self) # buf_b(self)
  /\ Sent(\h22) # {}

----------------------------------------------------------------------------
\* the number of transport acquisitions in a log: line requests and bus opens
Acquisitions(l) ==
  Cardinality({i \in 1..Len(l) : l[i].op \in {"request_lines", "spi_open"}})

(* C8: once setup() has acquired the transport (_gpio_setup is set), no    *)
(* step requests the GPIO lines or opens the SPI bus again, the flag and   *)
(* the line request stay, and a later update enters the sequence at the    *)
(* reset pulse.                                                            *)
C8_AcquiredOnce ==
  [][ self._gpio_setup =>
        /\ self'._gpio_setup
        /\ self'._gpio = self._gpio
        /\ Acquisitions(log') <= Acquisitions(log)
        /\ pc' \notin {"setup_gpio", "setup_spi"}
        /\ pc = "idle" /\ pc' # "idle" => pc' = "run" /\ Program(self, call')[call'.i] = SetReset(INACTIVE)
    ]_vars

\* an update that started with the transport acquired has returned
C8_Witness ==
  /\ self._gpio_setup
  /\ Returned
  /\ Acquisitions(log) = 0
  /\ log[1] = Event("set_reset", INACTIVE)

----------------------------------------------------------------------------
(* C9: for requested colour yellow or black the selected LUT is the table  *)
(* of that name, whatever the identity record; it is never red_ht.         *)
C9_OnlyRedUpgraded ==
  made = "ok" /\ self.colour \in {"yellow", "black"} => self.lut = self.colour

----------------------------------------------------------------------------
(* C10: for requested colour red the selected LUT is red_ht exactly when   *)
(* an identity record is present, its display variant is 1 or 6 and its    *)
(* colour is red; otherwise it is red.                                     *)
C10_RedUpgrade ==
  made = "ok" /\ self.colour = "red" =>
    /\ self.lut \in {"red", "red_ht"}
    /\ self.lut = "red_ht" <=>
         /\ args.eeprom.present
         /\ args.eeprom.display_variant \in {1, 6}
         /\ args.eeprom.color = "red"

\* a red instance was constructed from a variant 6 red identity record
C10_Witness ==
  /\ made = "ok" /\ self.colour = "red" /\ self.lut = "red_ht"
  /\ args.eeprom.display_variant = 6

----------------------------------------------------------------------------
\* the controller geometry (cols, rows, rotation) of the five resolutions
Geometry ==
  [r \in {<<800, 480>>, <<600, 448>>, <<400, 300>>, <<212, 104>>, <<250, 122>>} |->
     CASE r = <<800, 480>> -> <<800, 480, 0>>
       [] r = <<600, 448>> -> <<600, 448, 0>>
       [] r = <<400, 300>> -> <<400, 300, 0>>
       [] r = <<212, 104>> -> <<104, 212, -90>>
       [] r = <<250, 122>> -> <<250, 122, -90>>]

(* C11: the constructor returns exactly when the resolution is one of the  *)
(* five of the table, the colour is red, black or yellow and the identity  *)
(* record is absent or reports the width and height of the resolution;     *)
(* then cols, rows and rotation are the table entry of the resolution;     *)
(* otherwise it raises ValueError and no operation runs on the instance;   *)
(* no later update ends with ValueError.                                   *)
C11_Construction ==
  /\ made # "new" =>
       /\ made = "ok" <=>
            /\ args.resolution \in DOMAIN Geometry
            /\ args.colour \in {"red", "black", "yellow"}
            /\ \/ ~args.eeprom.present
               \/ /\ args.eeprom.width = args.resolution[1]
                  /\ args.eeprom.height = args.resolution[2]
       /\ made = "ok" =>
            /\ <<self.cols, self.rows, self.rotation>> = Geometry[args.resolution]
            /\ <<self.width, self.height>> = args.resolution
       /\ made # "ok" =>
            /\ made = "ValueError"
            /\ self = NoSelf
            /\ call = NoCall /\ log = <<>>
  /\ result # "ValueError"

\* a 212x104 instance made from a matching identity record completed an update
C11_Witness ==
  /\ made = "ok"
  /\ args.resolution = <<212, 104>>
  /\ args.eeprom.present
  /\ Returned

----------------------------------------------------------------------------
(* C12: a set_pixel call whose value is none of 0, 1, 2 returns without an *)
(* exception and leaves the frame buffer as it was, at positions inside    *)
(* and outside the display and whatever the buffer holds.                  *)
C12_BadValueIgnored ==
  [][ call'.op = "set_pixel" /\ call'.v \notin {0, 1, 2} =>
        /\ result' = "returned"
        /\ self'.buf.shape = self.buf.shape
        /\ self'.buf.fill = self.buf.fill
        /\ \A q \in DOMAIN self.buf.cells \cup DOMAIN self'.buf.cells :
             Cell(self'.buf, q[1], q[2]) = Cell(self.buf, q[1], q[2])
    ]_vars

\* value 3 was given for a position inside a buffer that holds set pixels
C12_Witness ==
  /\ call.op = "set_pixel" /\ call.v = 3
  /\ result = "returned"
  /\ InBounds(self.buf, call.y, call.x)
  /\ Cell(self.buf, call.y, call.x) = BLACK

----------------------------------------------------------------------------
(* C13: the frame buffer always has rows x cols elements laid out as rows  *)
(* rows of cols columns, rows and cols being the controller geometry of    *)
(* the resolution.                                                         *)
C13_BufferShape ==
  made = "ok" => self.buf.shape = <<self.rows, self.cols>>

----------------------------------------------------------------------------
\* the planes written after command byte c: the data of the writes that follow it
PlanesSent(c) == {log[i + 1].pl : i \in {j \in Sent(c) : j < Len(log) /\ IsData(log[j + 1])}}

(* C14: each plane written to RAM register 0x24 or 0x26 has               *)
(* ceil(rows * cols / 8) bytes, none of them at an index past that length, *)
(* for every resolution, flip flags and buffer, and an update that         *)
(* returned wrote one plane to each register.                              *)
C14_PlaneLength ==
  LET bytes == (self.rows * self.cols + 7) \div 8
  IN  /\ \A pl \in PlanesSent(\h24) \cup PlanesSent(\h26) :
           /\ pl.len = bytes
           /\ pl.len * 8 >= self.rows * self.cols
           /\ (pl.len - 1) * 8 < self.rows * self.cols
           /\ \A e \in pl.ex : 0 <= e[1] /\ e[1] < pl.len
      /\ \A i \in 1..Len(log) :
           log[i].pl # NoPlane => log[i].pl \in PlanesSent(\h24) \cup PlanesSent(\h26)
      /\ Returned =>
           Cardinality(PlanesSent(\h24)) = 1 /\ Cardinality(PlanesSent(\h26)) = 1

\* a flipped 250x122 panel, whose 30500 pixels do not fill a whole number of
\* bytes, was updated from a loaded image
C14_Witness ==
  /\ Returned
  /\ self.resolution = <<250, 122>>
  /\ self.h_flip /\ self.v_flip
  /\ self.buf.cells # << >>
  /\ self.buf.shape = <<250, 122>>
  /\ \E pl \in PlanesSent(\h24) : pl.len = 3813

----------------------------------------------------------------------------
\* byte k of a packed plane
PlaneByte(pl, k) ==
  IF \E e \in pl.ex : e[1] = k THEN (CHOOSE e \in pl.ex : e[1] = k)[2] ELSE pl.dflt

\* the bit of pixel i in a plane packed most significant bit first
PlaneBit(pl, i) == (PlaneByte(pl, i \div 8) \div (2 ^ (7 - (i % 8)))) % 2

\* pixel i of an array taken row-major
PixelAt(m, i) == Cell(m, i \div m.shape[2], i % m.shape[2])

\* the bytes of planes a and b of array m that can differ from the rest:
\* those that hold a listed cell of m or are listed in a plane, and the last
\* one; every other byte holds a plane's default and eight pixels of m's fill
Marked(m, a, b) ==
  {(p[1] * m.shape[2] + p[2]) \div 8 : p \in DOMAIN m.cells}
  \cup {e[1] : e \in a.ex \cup b.ex}
  \cup {a.len - 1}

\* the pixels examined: those of the marked bytes and of the first unmarked
\* byte, which is among the first Cardinality(Marked) + 1 bytes
Examined(m, a, b) ==
  LET marked == Marked(m, a, b)
      unmarked == {k \in 0..Cardinality(marked) : k < a.len /\ k \notin marked}
      first == IF unmarked = {} THEN {}
               ELSE {CHOOSE k \in unmarked : \A j \in unmarked : k <= j}
  IN  {i \in {8 * k + j : k \in marked \cup first, j \in 0..7} :
         i < m.shape[1] * m.shape[2]}

(* C15: in the planes an update writes, the bit of every pixel of the      *)
(* oriented buffer, at its row-major position and most significant bit     *)
(* first, is in the plane of 0x24 0 for a BLACK pixel and 1 otherwise, and *)
(* in the plane of 0x26 1 for an accent pixel and 0 otherwise; no pixel    *)
(* has bit 0 in the first and bit 1 in the second.                         *)
C15_PlaneBits ==
  \A a \in PlanesSent(\h24) : \A b \in PlanesSent(\h26) :
    LET m == Region(self)
    IN  /\ a.len = b.len
        /\ \A i \in Examined(m, a, b) :
             /\ PlaneBit(a, i) = IF PixelAt(m, i) = BLACK THEN 0 ELSE 1
             /\ PlaneBit(b, i) = IF PixelAt(m, i) = RED THEN 1 ELSE 0
             /\ ~(PlaneBit(a, i) = 0 /\ PlaneBit(b, i) = 1)

\* a rotated, flipped buffer holding black, accent, white and out-of-palette
\* pixels was packed and written
C15_Witness ==
  /\ Returned
  /\ self.rotation = -90 /\ self.v_flip /\ ~self.h_flip
  /\ {1, 2, 3} \subseteq {self.buf.cells[q] : q \in DOMAIN self.buf.cells}
  /\ \E a \in PlanesSent(\h24) : \E b \in PlanesSent(\h26) :
       /\ \E i \in Examined(Region(self), a, b) : PlaneBit(a, i) = 0 /\ PlaneBit(b, i) = 0
       /\ \E i \in Examined(Region(self), a, b) : PlaneBit(a, i) = 1 /\ PlaneBit(b, i) = 1
       /\ \E i \in Examined(Region(self), a, b) : i \div 8 \notin Marked(Region(self), a, b)

----------------------------------------------------------------------------
\* the positions of the log where command byte c and its data were both written
Written(c) == {i \in Sent(c) : i < Len(log) /\ IsData(log[i + 1])}

(* C16: an update writes the border register 0x3C first with 0x00; for a   *)
(* BLACK border, an accent border on profile red or yellow, or a WHITE     *)
(* border it writes it once more, with 0x00, 0x73, 0x33 or 0x31, and these *)
(* two are all its writes to 0x3C, both before the LUT write 0x32; for an  *)
(* accent border on profile black there is no second write, so the         *)
(* register holds 0x00 when the LUT is loaded.                             *)
C16_BorderRegister ==
  LET fallsThrough == self.border_colour = RED /\ self.colour = "black"
      expected == CASE self.border_colour = BLACK -> \h00
                    [] self.border_colour = RED /\ self.colour = "red" -> \h73
                    [] self.border_colour = RED /\ self.colour = "yellow" -> \h33
                    [] self.border_colour = WHITE -> \h31
                    [] OTHER -> \h00
      writes == IF fallsThrough THEN 1 ELSE 2
  IN  made = "ok" =>
        /\ self.border_colour \in {WHITE, BLACK, RED}
        /\ Cardinality(Sent(\h3C)) <= writes
        /\ \A i \in Written(\h3C) :
             /\ (\A j \in Sent(\h3C) : i <= j) => log[i + 1].d = << \h00 >>
             /\ (\E j \in Sent(\h3C) : j < i) => log[i + 1].d = << expected >>
        /\ \A i \in Sent(\h32) :
             /\ Cardinality(Written(\h3C)) = writes
             /\ \A j \in Sent(\h3C) : j < i
             /\ \E j \in Written(\h3C) :
                  /\ \A k \in Sent(\h3C) : k <= j
                  /\ log[j + 1].d = << expected >>

\* an update with an accent border on profile black loaded the LUT after a
\* single write of 0x00 to 0x3C
C16_Witness ==
  /\ Returned
  /\ self.border_colour = RED /\ self.colour = "black"
  /\ Cardinality(Written(\h3C)) = 1
  /\ SentWith(\h3C, << \h00 >>) # {}
  /\ Sent(\h32) # {}

----------------------------------------------------------------------------
(* C17: the data written to 0x44 is X start 0 and X end cols / 8 - 1, and  *)
(* the data written to 0x45 is Y start 0 and Y end rows - 1, each Y value  *)
(* as 16 bits, low byte first.                                             *)
C17_RamWindow ==
  made = "ok" =>
    /\ \A i \in Written(\h44) : log[i + 1].d = << \h00, (self.cols \div 8) - 1 >>
    /\ \A i \in Written(\h45) :
         log[i + 1].d = << \h00, \h00, (self.rows - 1) % 256, (self.rows - 1) \div 256 >>

----------------------------------------------------------------------------
IsConfigCommand(e) == IsCommand(e) /\ e.d[1] \in ConfigRegisters

\* the configuration registers written, in log order
ConfigWritten ==
  LET f == SelectSeq(log, IsConfigCommand) IN [i \in 1..Len(f) |-> f[i].d[1]]

\* the place of a configuration register in the order the claim gives
ConfigRank(c) ==
  CASE c = \h74 -> 1 [] c = \h7E -> 2 [] c = \h01 -> 3 [] c = \h03 -> 4 [] c = \h04 -> 5
    [] c = \h3A -> 6 [] c = \h3B -> 7 [] c = \h11 -> 8 [] c = \h2C -> 9 [] c = \h3C -> 10

\* the last command byte written before position i of the log
CommandBefore(i) ==
  LET js == {j \in 1..(i - 1) : IsCommand(log[j])}
  IN  log[CHOOSE j \in js : \A k \in js : k <= j].d[1]

(* C18 as stated: the configuration registers are written in the order     *)
(* 0x74, 0x7E, 0x01, 0x03, 0x04 (overrides included), 0x3A, 0x3B, 0x11,    *)
(* 0x2C, 0x3C, and 0x3C is the last register written before the LUT        *)
(* register 0x32.                                                          *)
C18_Original ==
  /\ \A i \in 1..(Len(ConfigWritten) - 1) :
       ConfigRank(ConfigWritten[i]) <= ConfigRank(ConfigWritten[i + 1])
  /\ \A i \in Sent(\h32) : CommandBefore(i) = \h3C

\* a source voltage override applies: profile yellow, or red at 400x300
Overridden == self.colour = "yellow" \/ (self.colour = "red" /\ self.resolution = <<400, 300>>)

(* C18: the configuration registers are written in the order 0x74, 0x7E,   *)
(* 0x01, 0x03, 0x04, 0x3A, 0x3B, 0x11, 0x2C, 0x3C, with 0x3C written a     *)
(* second time unless the border is accent on profile black; the source    *)
(* voltage override (0x04 with 07 AC 32 for yellow, with 30 AC 22 for red  *)
(* at 400x300) comes after the border register and is then the last        *)
(* register written before the LUT register 0x32; without an override the  *)
(* last one is 0x3C. An interrupted update wrote a prefix of that order.   *)
C18_ConfigOrder ==
  LET order == << \h74, \h7E, \h01, \h03, \h04, \h3A, \h3B, \h11, \h2C, \h3C >>
               \o (IF self.border_colour = RED /\ self.colour = "black" THEN << >> ELSE << \h3C >>)
               \o (IF Overridden THEN << \h04 >> ELSE << >>)
      n == Len(ConfigWritten)
  IN  made = "ok" =>
        /\ n <= Len(order) /\ ConfigWritten = SubSeq(order, 1, n)
        /\ \A i \in Sent(\h32) :
             /\ ConfigWritten = order
             /\ CommandBefore(i) = IF Overridden THEN \h04 ELSE \h3C
        /\ \A i \in Written(\h04) :
             log[i + 1].d =
               IF \A j \in Sent(\h04) : i <= j THEN << \h41, \hAC, \h32 >>
               ELSE IF self.colour = "yellow" THEN << \h07, \hAC, \h32 >>
               ELSE << \h30, \hAC, \h22 >>
        /\ \A i \in Written(\h01) :
             log[i + 1].d = << self.rows % 256, self.rows \div 256, \h00 >>

\* a yellow update wrote its source voltage override after both border writes
C18_Witness ==
  /\ Returned
  /\ self.colour = "yellow"
  /\ \E i \in SentWith(\h04, << \h07, \hAC, \h32 >>) :
       /\ Cardinality({j \in Sent(\h3C) : j < i}) = 2
       /\ \E j \in Sent(\h32) : CommandBefore(j) = \h04 /\ i < j

----------------------------------------------------------------------------
(* C19: a set_pixel call with 0 <= x < width, 0 <= y < height and v one of *)
(* 0, 1, 2 returns without an exception, the cell of row y and column x    *)
(* then holds v, and every other cell, the shape and the fill of the       *)
(* buffer are as before, in whatever state the call is made.               *)
C19_SetPixelInRange ==
  [][ ( /\ call'.op = "set_pixel"
        /\ 0 <= call'.x /\ call'.x < self.width
        /\ 0 <= call'.y /\ call'.y < self.height
        /\ call'.v \in {0, 1, 2} ) =>
        /\ result' = "returned"
        /\ Cell(self'.buf, call'.y, call'.x) = call'.v
        /\ self'.buf.shape = self.buf.shape
        /\ self'.buf.fill = self.buf.fill
        /\ \A q \in (DOMAIN self.buf.cells \cup DOMAIN self'.buf.cells) \ {<<call'.y, call'.x>>} :
             Cell(self'.buf, q[1], q[2]) = Cell(self.buf, q[1], q[2])
    ]_vars

----------------------------------------------------------------------------
(* C20: the panel holds the busy line active from the trigger 0x20 until   *)
(* its refresh is complete; whenever an update has issued the deep-sleep   *)
(* command 0x10 the busy line is ready, whatever falling-edge events were  *)
(* queued before the wait that follows the trigger.                        *)
C20_SleepWhenReady ==
  Sent(\h10) # {} => ~busy

====
